---- MODULE Spec2Model ----
(***************************************************************************)
(* A model of the ArbitrageEngine: the constant-product pool               *)
(* (src/src/amm/uniswap_v2.py), the StableSwap Newton solvers              *)
(* (src/src/amm/curve.py) and the two-pool arbitrage scan                  *)
(* (src/src/arbitrage/detector.py).                                        *)
(*                                                                         *)
(* Numbers.  The program computes in Python floats: binary floating point, *)
(* every +, -, * and / rounded to the nearest representable value, ties to *)
(* even.  The model keeps that arithmetic and narrows the significand from *)
(* 53 bits to Precision bits: a number is [m, e], standing for m * 2^e,    *)
(* with m = 0 or 2^(Precision-1) <= |m| < 2^Precision.  The exponent is    *)
(* not bounded (no overflow to inf, no underflow).  Division by zero is    *)
(* Python's ZeroDivisionError; the operations below state where it is      *)
(* raised.                                                                 *)
(***************************************************************************)
EXTENDS Integers, Sequences, FiniteSets, TLC

\* Width of the significand, in bits.
Precision == 14

Zero == [m |-> 0, e |-> 0]

\* "x = v" followed by body: v is evaluated once and bound, as Python
\* evaluates an assignment or an argument before the code that uses it.
Let(v, body(_)) == CHOOSE r \in {body(x) : x \in {v}} : TRUE

Let2(v, w, body(_, _)) == CHOOSE r \in {body(x, y) : x \in {v}, y \in {w}} : TRUE

\* The number of bits of n >= 0.
BitLen(n) == CHOOSE k \in 0..30 : n < 2^k /\ (k = 0 \/ n >= 2^(k-1))

\* mag * 2^e, mag > 0 of L bits, rounded to Precision bits, ties to even
\* (a tie only when no sticky bit was shifted out before), with sign sg.
RoundBits(sg, mag, L, e, sticky) ==
    LET s    == L - Precision
        q    == mag \div 2^s
        r    == mag % 2^s
        half == 2^(s-1)
        up   == r > half \/ (r = half /\ (sticky \/ q % 2 = 1))
        q1   == IF up THEN q + 1 ELSE q
    IN  IF s <= 0 THEN [m |-> sg * mag * 2^(-s), e |-> e + s]
        ELSE IF q1 = 2^Precision THEN [m |-> sg * 2^(Precision-1), e |-> e + s + 1]
        ELSE [m |-> sg * q1, e |-> e + s]

\* (n + f) * 2^e rounded to Precision bits; 0 < f < 1 when sticky (bits
\* already shifted out of n), and f = 0 otherwise.
Round(n, e, sticky) ==
    Let(IF n < 0 /\ sticky THEN -n - 1 ELSE IF n < 0 THEN -n ELSE n,
        LAMBDA mag : IF mag = 0 THEN Zero
                     ELSE RoundBits(IF n < 0 THEN -1 ELSE 1, mag, BitLen(mag), e, sticky))

\* float(n) for an integer n.
FromInt(n) == Round(n, 0, FALSE)

Neg(a) == Let(a, LAMBDA x : [m |-> -x.m, e |-> x.e])

Abs(a) == Let(a, LAMBDA x : [m |-> IF x.m < 0 THEN -x.m ELSE x.m, e |-> x.e])

\* a * b
Mul(a, b) == Let2(a, b, LAMBDA x, y : Round(x.m * y.m, x.e + y.e, FALSE))

\* The quotient of the significands am / bm, am, bm > 0, to Precision + 1
\* bits and a sticky bit, rounded; e is the exponent of its last bit.
DivBits(sg, am, bm, e) ==
    LET q   == (am * 2^Precision) \div bm
        r   == (am * 2^Precision) % bm
        bit == IF 2 * r >= bm THEN 1 ELSE 0
    IN  Round(sg * (2 * q + bit), e, 2 * r - bit * bm # 0)

\* a / b for b # 0 (b = 0 is ZeroDivisionError, stated by the callers).
Div(a, b) ==
    Let2(a, b, LAMBDA x, y :
        IF x.m = 0 THEN Zero
        ELSE IF (x.m < 0) = (y.m < 0)
        THEN DivBits(1, IF x.m < 0 THEN -x.m ELSE x.m, IF y.m < 0 THEN -y.m ELSE y.m,
                     x.e - y.e - Precision - 1)
        ELSE Neg(DivBits(1, IF x.m < 0 THEN -x.m ELSE x.m, IF y.m < 0 THEN -y.m ELSE y.m,
                         x.e - y.e - Precision - 1)))

\* hi + lo where hi has the larger exponent: lo is shifted onto hi's grid
\* extended by three guard bits, the bits shifted out kept as the sticky bit.
AddAligned(hi, lo) ==
    LET d == hi.e - lo.e
    IN  IF d <= 3 THEN Round(hi.m * 2^d + lo.m, lo.e, FALSE)
        ELSE IF d > Precision + 2 THEN hi
        ELSE Round(hi.m * 8 + (lo.m \div 2^(d-3)), hi.e - 3, lo.m % 2^(d-3) # 0)

\* a + b
Add(a, b) ==
    Let2(a, b, LAMBDA x, y :
        IF x.m = 0 THEN y
        ELSE IF y.m = 0 THEN x
        ELSE IF x.e >= y.e THEN AddAligned(x, y) ELSE AddAligned(y, x))

\* a - b
Sub(a, b) == Add(a, Neg(b))

\* a < b and a <= b: rounding never changes the sign of a difference.
Lt(a, b) == Sub(a, b).m < 0

Le(a, b) == Sub(a, b).m <= 0

\* Python's min(a, b): b when b < a, else a.
Min(a, b) == Let2(a, b, LAMBDA x, y : IF Lt(y, x) THEN y ELSE x)

\* A decimal literal num/den, rounded as Python's parser rounds it.
Lit(num, den) == Div(FromInt(num), FromInt(den))

One == FromInt(1)

(***************************************************************************)
(* UniswapV2AMM.  A pool is [name, reserve0, reserve1, fee]; the attribute *)
(* k set by the constructor is never read again and is left out.           *)
(***************************************************************************)
UniswapV2AMM(token0_reserve, token1_reserve, fee, name) ==
    [name |-> name, reserve0 |-> token0_reserve, reserve1 |-> token1_reserve, fee |-> fee]

get_amount_out(self, amount_in, reserve_in, reserve_out) ==
    IF Le(amount_in, Zero) THEN Zero
    ELSE Let(Mul(amount_in, Sub(One, self.fee)), LAMBDA amount_in_with_fee :
             LET numerator   == Mul(amount_in_with_fee, reserve_out)
                 denominator == Add(reserve_in, amount_in_with_fee)
             IN  Div(numerator, denominator))

\* reserve1 / reserve0; raises ZeroDivisionError when reserve0 = 0.
get_spot_price_raises(self) == self.reserve0.m = 0

get_spot_price(self) == Div(self.reserve1, self.reserve0)

\* swap returns the pool after the call and the amount it returns.
swap(self, amount_in, direction) ==
    IF direction = "x_to_y"
    THEN Let(get_amount_out(self, amount_in, self.reserve0, self.reserve1),
             LAMBDA amount_out :
                 [pool |-> [self EXCEPT !.reserve0 = Add(self.reserve0, amount_in),
                                        !.reserve1 = Sub(self.reserve1, amount_out)],
                  amount_out |-> amount_out])
    ELSE Let(get_amount_out(self, amount_in, self.reserve1, self.reserve0),
             LAMBDA amount_out :
                 [pool |-> [self EXCEPT !.reserve1 = Add(self.reserve1, amount_in),
                                        !.reserve0 = Sub(self.reserve0, amount_out)],
                  amount_out |-> amount_out])

\* A new pool object with the same reserves, fee and name.
copy(self) == UniswapV2AMM(self.reserve0, self.reserve1, self.fee, self.name)

\* BaseAMM.has_pair: every pool answers True.
has_pair(self, token0, token1) == TRUE

(***************************************************************************)
(* CurveAMM.  A pool is [name, reserves, A, n, fee]; reserves is the list  *)
(* self.reserves, indexed from 1 here and from 0 in the source.            *)
(***************************************************************************)
CurveAMM(reserves, amplification_coef, fee, name) ==
    [name |-> name, reserves |-> reserves, A |-> amplification_coef,
     n |-> Len(reserves), fee |-> fee]

\* The iteration cap of both Newton loops: range(255).
MaxIterations == 255

\* sum(xs): 0 + xs[1] + ... + xs[Len(xs)], from the left.
RECURSIVE Sum(_, _)
Sum(xs, k) == IF k = 0 THEN Zero ELSE Add(Sum(xs, k - 1), xs[k])

\* Ann = self.A * (n ** n), an integer.
Ann(self) == self.A * (self.n ^ self.n)

\* "for reserve in self.reserves: D_P = D_P * D / (n * reserve)", from the
\* k-th reserve on.
RECURSIVE D_P_loop(_, _, _, _)
D_P_loop(self, D, D_P, k) ==
    IF k > self.n THEN D_P
    ELSE D_P_loop(self, D, Div(Mul(D_P, D), Mul(FromInt(self.n), self.reserves[k])), k + 1)

\* One pass of get_D's loop: the next D.
get_D_iteration(self, S, D) ==
    Let(D_P_loop(self, D, D, 1), LAMBDA D_P :
        Div(Mul(Add(Mul(FromInt(Ann(self)), S), Mul(D_P, FromInt(self.n))), D),
            Add(Mul(FromInt(Ann(self) - 1), D), Mul(FromInt(self.n + 1), D_P))))

\* "abs(D - D_prev) < 1", and the same test on y.
converged(new, prev) == Lt(Abs(Sub(new, prev)), One)

\* get_y's first loop from index k on (k, i, j count from 0): S_ and c.
RECURSIVE y_terms(_, _, _, _, _, _, _)
y_terms(self, i0, j0, x, D, k, acc) ==
    IF k >= self.n THEN acc
    ELSE IF k = j0 THEN y_terms(self, i0, j0, x, D, k + 1, acc)
    ELSE Let2(IF k = i0 THEN x ELSE self.reserves[k + 1], acc, LAMBDA xk, t :
             y_terms(self, i0, j0, x, D, k + 1,
                     [S_ |-> Add(t.S_, xk),
                      c |-> Div(Mul(t.c, D), Mul(FromInt(self.n), xk))]))

\* The locals get_y holds when its Newton loop starts: c, b and y = D.
get_y_start(self, i0, j0, x, D) ==
    Let(y_terms(self, i0, j0, x, D, 0, [S_ |-> Zero, c |-> D]), LAMBDA t :
        [c |-> Div(Mul(t.c, D), FromInt(self.n * Ann(self))),
         b |-> Add(t.S_, Div(D, FromInt(Ann(self)))),
         y |-> D])

\* One pass of get_y's loop: the next y.
get_y_iteration(c, b, D, y) ==
    Div(Add(Mul(y, y), c), Sub(Add(Mul(FromInt(2), y), b), D))

\* get_amount_out's result from the y that get_y returned.
curve_amount_out(self, j0, y) ==
    Mul(Sub(self.reserves[j0 + 1], y), Sub(One, self.fee))

(***************************************************************************)
(* ArbitrageDetector: the loop body of find_two_pool_arbitrage and the     *)
(* helpers it calls.                                                       *)
(***************************************************************************)
\* The trade sizes the bounded search samples in [lower, upper].
lower == Lit(1, 100)

upper == FromInt(1000)

TrialAmounts == {lower, Lit(1, 10), One, FromInt(10), FromInt(100), upper}

\* The objective handed to the search: both quotes are taken on copies.
negative_profit(buy_pool, sell_pool, amount) ==
    Let2(copy(buy_pool), copy(sell_pool), LAMBDA buy_pool_copy, sell_pool_copy :
        Let(get_amount_out(buy_pool_copy, amount,
                           buy_pool_copy.reserve0, buy_pool_copy.reserve1),
            LAMBDA amount_out_buy :
                LET amount_out_sell ==
                        get_amount_out(sell_pool_copy, amount_out_buy,
                                       sell_pool_copy.reserve1, sell_pool_copy.reserve0)
                    profit == Sub(amount_out_sell, amount)
                IN  Neg(profit)))

\* The sampled amount with the least objective f (the smallest such amount).
ArgMin(f) ==
    CHOOSE a \in DOMAIN f :
        \A b \in DOMAIN f : Lt(f[a], f[b]) \/ (f[a] = f[b] /\ Le(a, b))

\* scipy's minimize_scalar(method='bounded') on bounds (lower, upper): the
\* minimiser among the sampled amounts, and the objective there.
minimize_scalar(buy_pool, sell_pool) ==
    Let([a \in TrialAmounts |-> negative_profit(buy_pool, sell_pool, a)],
        LAMBDA f : Let(ArgMin(f), LAMBDA x : [x |-> x, fun |-> f[x]]))

\* The same without the test of the sign: the least-negative amount is
\* returned when no amount is profitable.
optimize_trade_size_least_negative(buy_pool, sell_pool) ==
    minimize_scalar(buy_pool, sell_pool).x

optimize_trade_size(buy_pool, sell_pool) ==
    Let(minimize_scalar(buy_pool, sell_pool),
        LAMBDA result : IF Neg(result.fun).m > 0 THEN result.x ELSE Zero)

gas_cost == Lit(1, 1000)

\* The same with the swaps run on the caller's pools instead of copies.
calculate_net_profit_in_place(buy_pool, sell_pool, amount) ==
    Let(swap(buy_pool, amount, "x_to_y"), LAMBDA b :
        Let(swap(sell_pool, b.amount_out, "y_to_x"), LAMBDA s :
            [profit |-> Sub(Sub(s.amount_out, amount), gas_cost),
             buy_pool |-> b.pool, sell_pool |-> s.pool]))

\* The same with the gas cost left out of the result.
calculate_net_profit_without_gas(buy_pool, sell_pool, amount) ==
    Let(swap(copy(buy_pool), amount, "x_to_y"), LAMBDA b :
        Let(swap(copy(sell_pool), b.amount_out, "y_to_x"), LAMBDA s :
            [profit |-> Sub(s.amount_out, amount),
             buy_pool |-> buy_pool, sell_pool |-> sell_pool]))

\* The net profit, and the caller's two pool objects as the call leaves
\* them: the swaps run on copies.
calculate_net_profit(buy_pool, sell_pool, amount) ==
    Let2(copy(buy_pool), copy(sell_pool), LAMBDA buy_pool_copy, sell_pool_copy :
        Let(swap(buy_pool_copy, amount, "x_to_y"), LAMBDA b :
            Let(swap(sell_pool_copy, b.amount_out, "y_to_x"), LAMBDA s :
                LET gross_profit == Sub(s.amount_out, amount)
                IN  [profit |-> Sub(gross_profit, gas_cost),
                     buy_pool |-> buy_pool, sell_pool |-> sell_pool])))

\* What one evaluation of a pair leaves when nothing is emitted.
PairResult(outcome, pool_a, pool_b, price_a, price_b) ==
    [outcome |-> outcome, pool_a |-> pool_a, pool_b |-> pool_b,
     price_a |-> price_a, price_b |-> price_b, a_is_buy |-> FALSE,
     optimal_amount |-> Zero, profit |-> Zero]

\* "if optimal_amount > 0": the net profit and the threshold test.
report_pair(pool_a, pool_b, price_a, price_b, a_is_buy, optimal_amount, threshold) ==
    IF optimal_amount.m > 0
    THEN Let(calculate_net_profit(IF a_is_buy THEN pool_a ELSE pool_b,
                                  IF a_is_buy THEN pool_b ELSE pool_a, optimal_amount),
             LAMBDA net :
                 [outcome |-> IF Lt(threshold, net.profit) THEN "emit" ELSE "below",
                  pool_a |-> IF a_is_buy THEN net.buy_pool ELSE net.sell_pool,
                  pool_b |-> IF a_is_buy THEN net.sell_pool ELSE net.buy_pool,
                  price_a |-> price_a, price_b |-> price_b, a_is_buy |-> a_is_buy,
                  optimal_amount |-> optimal_amount, profit |-> net.profit])
    ELSE [PairResult("no_profit", pool_a, pool_b, price_a, price_b)
             EXCEPT !.a_is_buy = a_is_buy]

\* The part of the loop body after the screening test: the trade direction,
\* the trade size, and the report.
trade_pair(pool_a, pool_b, price_a, price_b, threshold) ==
    Let(Lt(price_a, price_b), LAMBDA a_is_buy :
        Let(optimize_trade_size(IF a_is_buy THEN pool_a ELSE pool_b,
                                IF a_is_buy THEN pool_b ELSE pool_a),
            LAMBDA amount : report_pair(pool_a, pool_b, price_a, price_b,
                                        a_is_buy, amount, threshold)))

\* The loop body without the screening test.
price_difference_not_screened(price_a, price_b) == FALSE

\* |price_a - price_b| / min(price_a, price_b) < 0.001
price_difference_too_small(price_a, price_b) ==
    Lt(Div(Abs(Sub(price_a, price_b)), Min(price_a, price_b)), Lit(1, 1000))

\* One pass of the loop body for the pair (pool_a, pool_b).  Nothing in the
\* body catches an exception: a ZeroDivisionError from a spot price or from
\* the screening quotient leaves find_two_pool_arbitrage.
two_pool_body(pool_a, pool_b, threshold) ==
    IF get_spot_price_raises(pool_a) \/ get_spot_price_raises(pool_b)
    THEN PairResult("raised", pool_a, pool_b, Zero, Zero)
    ELSE Let2(get_spot_price(pool_a), get_spot_price(pool_b), LAMBDA pa, pb :
             IF Min(pa, pb).m = 0
             THEN PairResult("raised", pool_a, pool_b, pa, pb)
             ELSE IF price_difference_too_small(pa, pb)
             THEN PairResult("skip", pool_a, pool_b, pa, pb)
             ELSE trade_pair(pool_a, pool_b, pa, pb, threshold))

\* The pair after (i, j) in "for i in range(n): for j in range(i + 1, n)".
NextPair(i0, j0, n) == IF j0 < n THEN <<i0, j0 + 1>> ELSE <<i0 + 1, i0 + 2>>

(***************************************************************************)
(* State.                                                                  *)
(***************************************************************************)
VARIABLES
    amms,                  \* detector.amms: the caller's pool objects
    min_profit_threshold,  \* detector.min_profit_threshold
    pc,                    \* find_two_pool_arbitrage: "idle", "scan", "done" (returned), "raised"
    pools,                 \* the list built at the start of the scan: indices into amms
    i, j,                  \* the loop indices of the next pair
    opportunities,         \* the list the scan appends to and returns
    pair,                  \* the indices into amms of the pair evaluated last, <<0, 0>> before
    price_a, price_b,      \* the spot prices read for that pair
    outcome,               \* how its evaluation ended: "none", "raised", "skip", "no_profit", "below", "emit"
    buy, sell,             \* the indices into amms of its buy_pool and sell_pool, 0 when not chosen
    optimal_amount,        \* what _optimize_trade_size returned for it
    amms0,                 \* the pools as they were handed to the constructor
    snap,                  \* the pools as they were when the scan started
    last,                  \* the last call of swap: its arguments, result and the pool before and after
    nswaps,                \* the number of calls of swap so far
    curve,                 \* a CurveAMM pool
    c_call,                \* the call in progress on it: [op, i, j, amount_in]
    c_pc,                  \* "idle", "get_D" (in its loop), "get_y" (in its loop), "returned", "raised"
    c_iter,                \* the passes of the current loop made so far
    c_D,                   \* D of get_D's loop, then get_y's local D
    c_y,                   \* get_y's locals [c, b, y]
    c_result,              \* what the call returned
    c_exhausted,           \* the loops that ran all their passes without meeting the tolerance
    t_pc,                  \* find_triangular_arbitrage: "idle", "scan", "done" (returned)
    t_k,                   \* the index into amms of the pool of the next trial
    t_s,                   \* the index of its start amount
    paths,                 \* the list the triangular scan appends to and returns
    trial                  \* the trial made last: its pool, amounts, legs and whether it was appended

scan_vars == <<min_profit_threshold, pc, pools, i, j, opportunities, pair,
               price_a, price_b, outcome, buy, sell, optimal_amount, snap>>

swap_vars == <<last, nswaps>>

curve_vars == <<curve, c_call, c_pc, c_iter, c_D, c_y, c_result, c_exhausted>>

tri_vars == <<t_pc, t_k, t_s, paths, trial>>

vars == <<amms, amms0, scan_vars, swap_vars, curve_vars, tri_vars>>

(***************************************************************************)
(* Inputs.                                                                 *)
(***************************************************************************)
\* The default fee, and a fee below zero: the constructor checks nothing
\* (base_amm.py, __init__).  With fees in [0, 1) the round trip that
\* negative_profit prices loses at every amount, so the code after
\* "if optimal_amount > 0" runs only for pools that pay a rebate.
default_fee == Lit(3, 1000)

rebate_fee == Neg(Lit(3, 100))

PoolA == UniswapV2AMM(FromInt(100000), FromInt(200000), default_fee, "Pool A")

PoolB == UniswapV2AMM(FromInt(100000), FromInt(210000), default_fee, "Pool B")

PoolR == UniswapV2AMM(FromInt(100000), FromInt(200000), rebate_fee, "Pool R")

PoolS == UniswapV2AMM(FromInt(100000), FromInt(210000), rebate_fee, "Pool S")

\* An empty reserve0: its spot price divides by zero.
PoolZ == UniswapV2AMM(Zero, FromInt(200000), default_fee, "Pool Z")

ScanPools == {PoolA, PoolB, PoolR, PoolS, PoolZ}

Thresholds == {Zero, One}

\* The most pools a detector is built with.
MaxPools == 3

NoSwap == [k |-> 0, amount_in |-> Zero, direction |-> "none", amount_out |-> Zero,
           before |-> PoolA, after |-> PoolA]

InitScanVars ==
    /\ pc = "idle"
    /\ pools = <<>>
    /\ i = 0
    /\ j = 0
    /\ opportunities = <<>>
    /\ pair = <<0, 0>>
    /\ price_a = Zero
    /\ price_b = Zero
    /\ outcome = "none"
    /\ buy = 0
    /\ sell = 0
    /\ optimal_amount = Zero
    /\ snap = <<>>

InitSwapVars ==
    /\ last = NoSwap
    /\ nswaps = 0

NoCall == [op |-> "none", i |-> 0, j |-> 0, amount_in |-> Zero]

NoLocals == [c |-> Zero, b |-> Zero, y |-> Zero]

InitCurveVars ==
    /\ c_call = NoCall
    /\ c_pc = "idle"
    /\ c_iter = 0
    /\ c_D = Zero
    /\ c_y = NoLocals
    /\ c_result = Zero
    /\ c_exhausted = {}

NoTrial == [k |-> 0, start_amount |-> Zero, legs |-> <<>>, final_amount_a |-> Zero,
            profit |-> Zero, profit_percentage |-> Zero, appended |-> FALSE]

InitTriVars ==
    /\ t_pc = "idle"
    /\ t_k = 0
    /\ t_s = 0
    /\ paths = <<>>
    /\ trial = NoTrial

\* ArbitrageDetector(amms, min_profit_threshold)
Init ==
    /\ amms \in UNION {[1..n -> ScanPools] : n \in 2..MaxPools}
    /\ amms0 = amms
    /\ min_profit_threshold \in Thresholds
    /\ InitScanVars
    /\ InitSwapVars
    /\ curve = CurveAMM(<<One, One>>, 1, Zero, "Curve")
    /\ InitCurveVars
    /\ InitTriVars

(***************************************************************************)
(* find_two_pool_arbitrage(('ETH', 'USDC')), one loop pass per step.       *)
(***************************************************************************)
\* pools = [amm for amm in self.amms if amm.has_pair(token0, token1)]
StartScan ==
    /\ pc = "idle"
    /\ pools' = SelectSeq([k \in 1..Len(amms) |-> k],
                          LAMBDA k : has_pair(amms[k], "ETH", "USDC"))
    /\ opportunities' = <<>>
    /\ i' = 1
    /\ j' = 2
    /\ pc' = IF Len(pools') >= 2 THEN "scan" ELSE "done"
    /\ snap' = amms
    /\ UNCHANGED <<amms, amms0, min_profit_threshold, pair, price_a, price_b,
                   outcome, buy, sell, optimal_amount, swap_vars, curve_vars, tri_vars>>

Opportunity(buy_pool, sell_pool, amount, profit) ==
    [buy_pool |-> buy_pool.name, sell_pool |-> sell_pool.name,
     token_in |-> "ETH", token_out |-> "USDC",
     amount |-> amount, expected_profit |-> profit]

ScanPair ==
    /\ pc = "scan"
    /\ \E r \in {two_pool_body(amms[pools[i]], amms[pools[j]], min_profit_threshold)} :
         LET a == pools[i]
             b == pools[j]
             chosen == r.outcome \in {"no_profit", "below", "emit"}
             nxt == NextPair(i, j, Len(pools))
         IN  /\ amms' = [amms EXCEPT ![a] = r.pool_a, ![b] = r.pool_b]
             /\ pair' = <<a, b>>
             /\ price_a' = r.price_a
             /\ price_b' = r.price_b
             /\ outcome' = r.outcome
             /\ buy' = IF ~chosen THEN 0 ELSE IF r.a_is_buy THEN a ELSE b
             /\ sell' = IF ~chosen THEN 0 ELSE IF r.a_is_buy THEN b ELSE a
             /\ optimal_amount' = r.optimal_amount
             /\ opportunities' =
                   IF r.outcome = "emit"
                   THEN Append(opportunities,
                               Opportunity(IF r.a_is_buy THEN amms[a] ELSE amms[b],
                                           IF r.a_is_buy THEN amms[b] ELSE amms[a],
                                           r.optimal_amount, r.profit))
                   ELSE opportunities
             /\ i' = nxt[1]
             /\ j' = nxt[2]
             /\ pc' = IF r.outcome = "raised" THEN "raised"
                      ELSE IF nxt[2] > Len(pools) THEN "done" ELSE "scan"
    /\ UNCHANGED <<amms0, min_profit_threshold, pools, snap, swap_vars, curve_vars, tri_vars>>

Next == StartScan \/ ScanPair

Spec == Init /\ [][Next]_vars

(***************************************************************************)
(* Calls of swap on the caller's pools.                                    *)
(***************************************************************************)
Directions == {"x_to_y", "y_to_x"}

\* amms[k].swap(amount_in, direction)
CallSwap(k, amount_in, direction) ==
    /\ \E r \in {swap(amms[k], amount_in, direction)} :
         /\ amms' = [amms EXCEPT ![k] = r.pool]
         /\ last' = [k |-> k, amount_in |-> amount_in, direction |-> direction,
                     amount_out |-> r.amount_out, before |-> amms[k], after |-> r.pool]
    /\ nswaps' = nswaps + 1
    /\ UNCHANGED <<amms0, scan_vars, curve_vars, tri_vars>>

\* The most calls of swap in a run.
MaxSwaps == 2

SwapPools == {PoolA, PoolB,
              UniswapV2AMM(FromInt(1000), FromInt(2000), default_fee, "Pool C")}

\* 10^12: an amount before which the input reserve vanishes in the sum
\* reserve_in + amount_in_with_fee.
huge_amount == Mul(FromInt(1000000), FromInt(1000000))

SwapAmounts == {FromInt(-10), Zero, Lit(1, 100), FromInt(100), FromInt(1000),
                huge_amount}

\* One pool and a caller that swaps on it.
InitSwap ==
    /\ amms \in {<<p>> : p \in SwapPools}
    /\ amms0 = amms
    /\ min_profit_threshold = Zero
    /\ InitScanVars
    /\ InitSwapVars
    /\ curve = CurveAMM(<<One, One>>, 1, Zero, "Curve")
    /\ InitCurveVars
    /\ InitTriVars

Swap ==
    /\ nswaps < MaxSwaps
    /\ \E amount_in \in SwapAmounts, direction \in Directions :
         CallSwap(1, amount_in, direction)

SpecSwap == InitSwap /\ [][Swap]_vars

(***************************************************************************)
(* A scan with another holder of the pools swapping on them meanwhile:     *)
(* the reserves are plain attributes of the objects in detector.amms, and  *)
(* the scan holds no lock and takes no copy of the list.                   *)
(***************************************************************************)
FeedPools == {PoolA, PoolB, PoolR, PoolS}

InitFeed ==
    /\ amms \in [1..2 -> FeedPools]
    /\ amms0 = amms
    /\ min_profit_threshold \in Thresholds
    /\ InitScanVars
    /\ InitSwapVars
    /\ curve = CurveAMM(<<One, One>>, 1, Zero, "Curve")
    /\ InitCurveVars
    /\ InitTriVars

ExternalSwap ==
    /\ pc = "scan"
    /\ nswaps < MaxSwaps
    /\ \E k \in 1..Len(amms), direction \in Directions :
         CallSwap(k, FromInt(1000), direction)

NextFeed == StartScan \/ ScanPair \/ ExternalSwap

SpecFeed == InitFeed /\ [][NextFeed]_vars

(***************************************************************************)
(* Calls of get_D and get_amount_out on a StableSwap pool, one pass of a   *)
(* Newton loop per step.  The reserves are floats, as a feed supplies them.*)
(***************************************************************************)
CurveReserves == {<<FromInt(1000), FromInt(1000)>>,
                  <<FromInt(100000), FromInt(110000)>>,
                  <<FromInt(1000000), FromInt(1000000)>>}

Amplifications == {1, 10, 100}

CurveCalls == {[op |-> "get_D", i |-> 0, j |-> 0, amount_in |-> Zero],
               [op |-> "get_amount_out", i |-> 0, j |-> 1, amount_in |-> FromInt(1000)],
               [op |-> "get_amount_out", i |-> 1, j |-> 0, amount_in |-> FromInt(1000)]}

InitCurve ==
    /\ amms = <<PoolA>>
    /\ amms0 = amms
    /\ min_profit_threshold = Zero
    /\ InitScanVars
    /\ InitSwapVars
    /\ curve \in {CurveAMM(r, a, Lit(4, 10000), "Curve") :
                     r \in CurveReserves, a \in Amplifications}
    /\ InitCurveVars
    /\ InitTriVars

\* The call starts: get_D's locals before its loop (D = S).
CurveCall ==
    /\ c_pc = "idle"
    /\ \E call \in CurveCalls : c_call' = call
    /\ c_D' = Sum(curve.reserves, curve.n)
    /\ c_iter' = 0
    /\ c_pc' = "get_D"
    /\ UNCHANGED <<amms, amms0, scan_vars, swap_vars, tri_vars, curve, c_y, c_result, c_exhausted>>

\* One pass of get_D's loop; the loop ends by "break" or after
\* MaxIterations passes, and either way get_D returns D.
GetDStep ==
    /\ c_pc = "get_D"
    /\ \E D \in {get_D_iteration(curve, Sum(curve.reserves, curve.n), c_D)} :
         LET brk  == converged(D, c_D)
             over == brk \/ c_iter + 1 = MaxIterations
         IN  /\ c_D' = D
             /\ c_iter' = IF over THEN 0 ELSE c_iter + 1
             /\ c_exhausted' = IF over /\ ~brk THEN c_exhausted \cup {"get_D"}
                               ELSE c_exhausted
             /\ IF ~over
                THEN UNCHANGED <<c_pc, c_y, c_result>>
                ELSE IF c_call.op = "get_D"
                THEN c_pc' = "returned" /\ c_result' = D /\ UNCHANGED c_y
                ELSE /\ c_pc' = "get_y"
                     /\ c_y' = get_y_start(curve, c_call.i, c_call.j,
                                   Add(curve.reserves[c_call.i + 1], c_call.amount_in), D)
                     /\ UNCHANGED c_result
    /\ UNCHANGED <<amms, amms0, scan_vars, swap_vars, tri_vars, curve, c_call>>

\* One pass of get_y's loop; when the loop ends get_y returns y and
\* get_amount_out returns (reserves[j] - y) * (1 - fee).
GetYStep ==
    /\ c_pc = "get_y"
    /\ \E y \in {get_y_iteration(c_y.c, c_y.b, c_D, c_y.y)} :
         LET brk  == converged(y, c_y.y)
             over == brk \/ c_iter + 1 = MaxIterations
         IN  /\ c_y' = [c_y EXCEPT !.y = y]
             /\ c_iter' = IF over THEN 0 ELSE c_iter + 1
             /\ c_exhausted' = IF over /\ ~brk THEN c_exhausted \cup {"get_y"}
                               ELSE c_exhausted
             /\ IF over
                THEN c_pc' = "returned" /\ c_result' = curve_amount_out(curve, c_call.j, y)
                ELSE UNCHANGED <<c_pc, c_result>>
    /\ UNCHANGED <<amms, amms0, scan_vars, swap_vars, tri_vars, curve, c_call, c_D>>

NextCurve == CurveCall \/ GetDStep \/ GetYStep

SpecCurve == InitCurve /\ [][NextCurve]_vars

(***************************************************************************)
(* find_triangular_arbitrage(('ETH', 'USDC', 'DAI')), one trial (a pool    *)
(* and a start amount) per step.                                           *)
(***************************************************************************)
\* for start_amount in [0.1, 1, 10, 100]
start_amounts == <<Lit(1, 10), One, FromInt(10), FromInt(100)>>

\* The directions the three legs pass to swap.
leg_directions == <<"a_to_b", "b_to_c", "c_to_a">>

\* The reserve (0 or 1) that swap adds amount_in to under a direction, and
\* the one it takes amount_out from: "x_to_y" names the first branch and
\* every other string runs the else branch.
swap_token_in(direction) == IF direction = "x_to_y" THEN 0 ELSE 1

swap_token_out(direction) == IF direction = "x_to_y" THEN 1 ELSE 0

\* One leg on amm_copy: what swap was given, what it moved and returned,
\* and amm_copy after it.
Leg(amm_copy, amount_in, direction) ==
    Let(swap(amm_copy, amount_in, direction), LAMBDA r :
        [direction |-> direction,
         token_in |-> swap_token_in(direction),
         token_out |-> swap_token_out(direction),
         amount_in |-> amount_in,
         amount_out |-> r.amount_out,
         amm_copy |-> r.pool])

\* The body of the inner loop for amms[k] and start_amount.
triangular_trial(k, amm, start_amount, threshold) ==
    Let(Leg(copy(amm), start_amount, leg_directions[1]), LAMBDA step1 :
    Let(Leg(step1.amm_copy, step1.amount_out, leg_directions[2]), LAMBDA step2 :
    Let(Leg(step2.amm_copy, step2.amount_out, leg_directions[3]), LAMBDA step3 :
    Let(Sub(step3.amount_out, start_amount), LAMBDA profit :
    Let(Mul(Div(profit, start_amount), FromInt(100)), LAMBDA profit_percentage :
        [k |-> k,
         start_amount |-> start_amount,
         legs |-> <<step1, step2, step3>>,
         final_amount_a |-> step3.amount_out,
         profit |-> profit,
         profit_percentage |-> profit_percentage,
         appended |-> Lt(threshold, profit_percentage)])))))

\* The record appended to paths.
Path(t, amm) ==
    [start_amount |-> t.start_amount, end_amount |-> t.final_amount_a,
     profit |-> t.profit, profit_percentage |-> t.profit_percentage,
     amm |-> amm.name]

\* Pools for the triangular scan: the two of the tests, their mirror
\* images and a balanced one.
TriPools == {PoolA, PoolB,
             UniswapV2AMM(FromInt(200000), FromInt(100000), default_fee, "Pool D"),
             UniswapV2AMM(FromInt(1010), FromInt(1000), default_fee, "Pool E"),
             UniswapV2AMM(FromInt(100000), FromInt(100000), default_fee, "Pool F")}

InitTriangular ==
    /\ amms \in UNION {[1..n -> TriPools] : n \in 1..2}
    /\ amms0 = amms
    /\ min_profit_threshold \in Thresholds
    /\ InitScanVars
    /\ InitSwapVars
    /\ curve = CurveAMM(<<One, One>>, 1, Zero, "Curve")
    /\ InitCurveVars
    /\ InitTriVars

\* paths = []; has_pair answers True for every pool, so no pool is passed over.
StartTriangular ==
    /\ t_pc = "idle"
    /\ paths' = <<>>
    /\ t_k' = 1
    /\ t_s' = 1
    /\ t_pc' = IF Len(amms) >= 1 THEN "scan" ELSE "done"
    /\ UNCHANGED <<amms, amms0, scan_vars, swap_vars, curve_vars, trial>>

\* One pass of the inner loop; after the last trial of the last pool the
\* function returns paths.
TriangularTrial ==
    /\ t_pc = "scan"
    /\ has_pair(amms[t_k], "ETH", "USDC")
    /\ \E t \in {triangular_trial(t_k, amms[t_k], start_amounts[t_s],
                                  min_profit_threshold)} :
         /\ trial' = t
         /\ paths' = IF t.appended THEN Append(paths, Path(t, amms[t_k])) ELSE paths
    /\ IF t_s < Len(start_amounts)
       THEN t_s' = t_s + 1 /\ UNCHANGED <<t_k, t_pc>>
       ELSE /\ t_s' = 1
            /\ t_k' = t_k + 1
            /\ t_pc' = IF t_k < Len(amms) THEN "scan" ELSE "done"
    /\ UNCHANGED <<amms, amms0, scan_vars, swap_vars, curve_vars>>

NextTriangular == StartTriangular \/ TriangularTrial

SpecTriangular == InitTriangular /\ [][NextTriangular]_vars

(***************************************************************************)
(* Properties of the scan (Spec).                                          *)
(***************************************************************************)
\* The pool a name of an opportunity stands for (the names of ScanPools
\* differ).
PoolNamed(name) == CHOOSE p \in ScanPools : p.name = name

\* amount_out_sell - amount, from two quotes on the pools themselves.
RoundTripProfit(buy_pool, sell_pool, amount) ==
    Let(get_amount_out(buy_pool, amount, buy_pool.reserve0, buy_pool.reserve1),
        LAMBDA amount_out_buy :
            Sub(get_amount_out(sell_pool, amount_out_buy,
                               sell_pool.reserve1, sell_pool.reserve0), amount))

\* |price_a - price_b| / min(price_a, price_b) of two pools with reserves > 0.
RelativeDivergence(pool_a, pool_b) ==
    Let2(Div(pool_a.reserve1, pool_a.reserve0), Div(pool_b.reserve1, pool_b.reserve0),
         LAMBDA pa, pb : Div(Abs(Sub(pa, pb)), Min(pa, pb)))

\* C1: find_two_pool_arbitrage never mutates the caller's pools: at every
\* point of a scan each pool of detector.amms has the reserve0, reserve1, fee
\* and name it was constructed with.
C1_PoolsNeverMutated == amms = amms0

\* A scan that ran to its return and whose last pair went through the
\* optimizer and _calculate_net_profit.
C1_Witness == pc = "done" /\ outcome \in {"emit", "below"} /\ optimal_amount.m > 0

\* C2: for pool A (100000, 200000) and pool B (100000, 210000), fee 0.003,
\* min_profit_threshold = 0, the scan returns at least one opportunity and
\* its expected_profit is > 0.
C2_StatedCaseYieldsOpportunity ==
    (pc = "done" /\ amms0 = <<PoolA, PoolB>> /\ min_profit_threshold = Zero)
        => (Len(opportunities) >= 1 /\ opportunities[1].expected_profit.m > 0)

\* C3: no opportunity is emitted for a pair whose relative spot-price
\* divergence is below 0.1%: the pair evaluated last is skipped when its
\* divergence is below 0.001, no opportunity names such a pair, and a scan
\* of pools with identical reserves returns nothing.
C3_NoOpportunityBelowScreening ==
    /\ (outcome \notin {"none", "raised"}
            /\ Lt(RelativeDivergence(amms0[pair[1]], amms0[pair[2]]), Lit(1, 1000)))
           => outcome = "skip"
    /\ \A n \in 1..Len(opportunities) :
           ~Lt(RelativeDivergence(PoolNamed(opportunities[n].buy_pool),
                                  PoolNamed(opportunities[n].sell_pool)), Lit(1, 1000))
    /\ (\A k \in 1..Len(amms0) : /\ amms0[k].reserve0 = amms0[1].reserve0
                                 /\ amms0[k].reserve1 = amms0[1].reserve1)
           => opportunities = <<>>

\* A finished scan of two pools with the same reserves: the pair was
\* skipped and nothing is returned.
C3_Witness ==
    /\ pc = "done"
    /\ Len(amms0) = 2
    /\ amms0[1].reserve0 = amms0[2].reserve0
    /\ amms0[1].reserve1 = amms0[2].reserve1
    /\ amms0[1].reserve0.m > 0
    /\ outcome = "skip"
    /\ opportunities = <<>>

\* C6: every opportunity has expected_profit = (amount_out_sell - amount) at
\* its recorded amount minus the gas cost 0.001, and that expected_profit
\* is strictly greater than min_profit_threshold.
C6_ProfitIsNetAndAboveThreshold ==
    \A n \in 1..Len(opportunities) :
        LET o == opportunities[n]
        IN  /\ o.expected_profit =
                   Sub(RoundTripProfit(PoolNamed(o.buy_pool), PoolNamed(o.sell_pool),
                                       o.amount), Lit(1, 1000))
            /\ Lt(min_profit_threshold, o.expected_profit)

\* An opportunity was emitted by the pair evaluated last.
C6_Witness == outcome = "emit" /\ Len(opportunities) >= 1

\* The profit function is negative at every sampled amount of the domain.
NegativeEverywhere(buy_pool, sell_pool) ==
    \A a \in TrialAmounts : RoundTripProfit(buy_pool, sell_pool, a).m < 0

\* C7: _optimize_trade_size returns an amount in [0.01, 1000] or 0, its
\* report of no profitable amount; when the profit function is negative at
\* every amount of the domain it returns 0 and the pair emits nothing.
C7_OptimizerStaysInDomain ==
    outcome \in {"no_profit", "below", "emit"} =>
        /\ \/ optimal_amount = Zero
           \/ Le(Lit(1, 100), optimal_amount) /\ Le(optimal_amount, FromInt(1000))
        /\ NegativeEverywhere(amms0[buy], amms0[sell])
               => (optimal_amount = Zero /\ outcome = "no_profit")

\* A pair past the screening whose profit function is negative everywhere:
\* the optimizer reported no amount.
C7_Witness ==
    /\ outcome = "no_profit"
    /\ optimal_amount = Zero
    /\ NegativeEverywhere(amms0[buy], amms0[sell])

\* C8: an error raised by a pool while one pair is evaluated is caught
\* inside find_two_pool_arbitrage: the pair is skipped and the scan goes on
\* to the remaining pairs or returns.
C8_PoolErrorIsCaught == outcome = "raised" => pc \in {"scan", "done"}

(***************************************************************************)
(* Properties of swap (SpecSwap).                                          *)
(***************************************************************************)
\* C4: after every swap with amount_in > 0, reserve0 * reserve1 is greater
\* than or equal to its value before the swap.
C4_ProductNeverDecreases ==
    (last.k # 0 /\ last.amount_in.m > 0) =>
        ~Lt(Mul(last.after.reserve0, last.after.reserve1),
            Mul(last.before.reserve0, last.before.reserve1))

\* C5: a swap with amount_in <= 0 returns 0 and leaves reserve0 and
\* reserve1 as they were.
C5_NonPositiveAmountLeavesReserves ==
    (last.k # 0 /\ last.amount_in.m <= 0) =>
        /\ last.amount_out = Zero
        /\ last.after.reserve0 = last.before.reserve0
        /\ last.after.reserve1 = last.before.reserve1

\* The reserve a swap adds to and the reserve it takes from.
InputReserve(pool, direction) ==
    IF direction = "x_to_y" THEN pool.reserve0 ELSE pool.reserve1

OutputReserve(pool, direction) ==
    IF direction = "x_to_y" THEN pool.reserve1 ELSE pool.reserve0

\* C11: after a swap with amount_in > 0 on a pool whose reserves are
\* strictly positive and whose fee is in [0, 1), the input reserve and the
\* output reserve are strictly positive, the input reserve is the former
\* one plus amount_in and the output reserve is the former one minus the
\* returned amount_out.
C11_ReservesStayPositive ==
    (/\ last.k # 0
     /\ last.amount_in.m > 0
     /\ last.before.reserve0.m > 0
     /\ last.before.reserve1.m > 0
     /\ Le(Zero, last.before.fee)
     /\ Lt(last.before.fee, One)) =>
        /\ InputReserve(last.after, last.direction).m > 0
        /\ OutputReserve(last.after, last.direction).m > 0
        /\ InputReserve(last.after, last.direction)
               = Add(InputReserve(last.before, last.direction), last.amount_in)
        /\ OutputReserve(last.after, last.direction)
               = Sub(OutputReserve(last.before, last.direction), last.amount_out)

(***************************************************************************)
(* Properties of a scan with a concurrent writer (SpecFeed).               *)
(***************************************************************************)
\* C10: the spot prices a scan compares are those of the reserves as they
\* were when the scan started, whatever is written to the pools meanwhile.
C10_ScanUsesStartSnapshot ==
    outcome \notin {"none", "raised"} =>
        /\ price_a = get_spot_price(snap[pair[1]])
        /\ price_b = get_spot_price(snap[pair[2]])

(***************************************************************************)
(* Properties of the StableSwap solvers (SpecCurve).                       *)
(***************************************************************************)
\* C9: when the loop of get_D or of get_y makes all 255 passes without the
\* change between successive iterates falling below 1, the call ends in a
\* NumericalConvergenceError and returns nothing.
C9_ExhaustedSolveRaises == c_exhausted # {} => c_pc = "raised"

(***************************************************************************)
(* Properties of the triangular scan (SpecTriangular).                     *)
(***************************************************************************)
\* C12: in every trial the three trades run in the order A->B, B->C, C->A
\* on one clone, each leg takes as input the token and the amount the leg
\* before it produced, the last leg produces the token the first leg took,
\* profit is the final amount minus the start amount, a path record is
\* appended exactly when profit / start * 100 exceeds min_profit_threshold,
\* and the caller's pools stay as they were.
C12_LegsAreChained ==
    trial.k # 0 =>
        /\ [n \in 1..3 |-> trial.legs[n].direction] = leg_directions
        /\ trial.legs[1].amount_in = trial.start_amount
        /\ \A n \in 1..2 :
             /\ trial.legs[n + 1].amount_in = trial.legs[n].amount_out
             /\ trial.legs[n + 1].token_in = trial.legs[n].token_out
        /\ trial.legs[3].token_out = trial.legs[1].token_in
        /\ trial.profit = Sub(trial.final_amount_a, trial.start_amount)
        /\ trial.appended
              <=> Lt(min_profit_threshold,
                     Mul(Div(trial.profit, trial.start_amount), FromInt(100)))
        /\ amms = amms0

====
